---- MODULE Spec2Model ----
(***************************************************************************)
(* Linux-Kernel-Detector: the rule-based scanner of                        *)
(* tools/detectors/detector.py (AntiPatternDetector).                      *)
(*                                                                         *)
(* Text is a sequence of one-character strings, a path is a sequence of    *)
(* path segments (each a text), a dict is a function, a list a sequence.   *)
(* Positions inside a text are 0-based as in Python; a slice content[a:b]  *)
(* is SubSeq(content, a + 1, b).                                           *)
(***************************************************************************)
EXTENDS Integers, Sequences, FiniteSets, Bags, TLC

VARIABLES
    config_file,   \* the configuration file the instance is constructed from
    config,        \* self.config of the detector instance
    kernel_path,   \* the corpus root passed to analyze_kernel
    pc,            \* position of the coordinator: "exited", "idle", "collecting", "done", "saved", "crashed"
    c_files,       \* analyze_kernel: c_files (indices into FileSystem)
    task,          \* per submitted file: "queued", "running", "finished", "consumed"
    future,        \* per submitted file: outcome of analyze_file held by its future
    all_findings,  \* analyze_kernel: all_findings
    statistics,    \* analyze_kernel: statistics
    results,       \* self.results
    errorLog,      \* files passed to logger.error by analyze_kernel's except branch
    run,           \* number of analyze_kernel calls started on this instance
    prev,          \* the report returned by the previous analyze_kernel call
    results_file,  \* the results file save_results writes and the analyzer reads
    analyzer_pc,   \* position of ConcurrencyAnalyzer.run_analysis
    concurrency_issues,  \* the analyzer's self.concurrency_issues
    classified_issues,   \* the analyzer's self.classified_issues (category -> list)
    snippet_root,  \* kernel_path of the last extract_code_snippets call
    report_data    \* the report written by save_detailed_report

vars == <<config_file, config, kernel_path, pc, c_files, task, future, all_findings,
          statistics, results, errorLog, run, prev, results_file, analyzer_pc,
          concurrency_issues, classified_issues, snippet_root, report_data>>

\* the state of the ConcurrencyAnalyzer instance
analyzerVars == <<analyzer_pc, concurrency_issues, classified_issues, snippet_root,
                  report_data>>

\* the state of the AntiPatternDetector instance
detectorVars == <<config_file, config, kernel_path, pc, c_files, task, future,
                  all_findings, statistics, results, errorLog, run, prev>>

-----------------------------------------------------------------------------
(* Bounds of the model *)

\* pool sizes 1..MaxWorkers are explored (performance.max_concurrent_analyzers)
MaxWorkers == 2
\* successive analyze_kernel calls on one detector instance
MaxRuns == 2
\* the file system holds the first MaxFiles files of AllFiles
MaxFiles == 10

\* get_context_lines: context: int = 3
Context == 3

-----------------------------------------------------------------------------
(* Text helpers *)

NL == "\n"

Max(a, b) == IF a >= b THEN a ELSE b
Min(a, b) == IF a <= b THEN a ELSE b

\* re.IGNORECASE compares characters without regard to case
Lower(c) ==
    CASE c = "A" -> "a"
      [] c = "B" -> "b"
      [] c = "C" -> "c"
      [] c = "D" -> "d"
      [] c = "E" -> "e"
      [] c = "F" -> "f"
      [] c = "G" -> "g"
      [] c = "H" -> "h"
      [] c = "I" -> "i"
      [] c = "J" -> "j"
      [] c = "K" -> "k"
      [] c = "L" -> "l"
      [] c = "M" -> "m"
      [] c = "N" -> "n"
      [] c = "O" -> "o"
      [] c = "P" -> "p"
      [] c = "Q" -> "q"
      [] c = "R" -> "r"
      [] c = "S" -> "s"
      [] c = "T" -> "t"
      [] c = "U" -> "u"
      [] c = "V" -> "v"
      [] c = "W" -> "w"
      [] c = "X" -> "x"
      [] c = "Y" -> "y"
      [] c = "Z" -> "z"
      [] OTHER -> c

\* content[a:b] for 0 <= a <= b <= len(content)
Slice(s, a, b) == SubSeq(s, a + 1, b)

\* the text `sub` occurs in `s` at 0-based position pos, exactly
OccursAt(s, pos, sub) ==
    /\ pos + Len(sub) <= Len(s)
    /\ \A i \in 1..Len(sub) : s[pos + i] = sub[i]

\* Python's `sub in s` for two strings
IsSubstring(sub, s) == \E pos \in 0..Len(s) : OccursAt(s, pos, sub)

\* s.count('\n')
RECURSIVE CountNL(_)
CountNL(s) ==
    IF s = <<>> THEN 0
    ELSE (IF Head(s) = NL THEN 1 ELSE 0) + CountNL(Tail(s))

\* content.split('\n'): always at least one line, a trailing newline gives a last empty line
RECURSIVE SplitFrom(_, _, _)
SplitFrom(s, i, cur) ==
    IF i > Len(s) THEN <<cur>>
    ELSE IF s[i] = NL THEN <<cur>> \o SplitFrom(s, i + 1, <<>>)
    ELSE SplitFrom(s, i + 1, Append(cur, s[i]))

SplitLines(content) == SplitFrom(content, 1, <<>>)

-----------------------------------------------------------------------------
(* Paths (pathlib.Path) *)

\* str(path): segments joined by "/"; the empty relative path prints as "."
RECURSIVE JoinSegments(_)
JoinSegments(p) ==
    IF Len(p) = 1 THEN p[1]
    ELSE p[1] \o <<"/">> \o JoinSegments(Tail(p))

Str(p) == IF p = <<>> THEN <<".">> ELSE JoinSegments(p)

\* file_path.parent
Parent(p) == SubSeq(p, 1, Len(p) - 1)

IsPrefix(base, p) ==
    /\ Len(base) <= Len(p)
    /\ SubSeq(p, 1, Len(base)) = base

ValueError == <<"ValueError">>

\* PurePath.relative_to(base): the rest of the path, or ValueError when base is no prefix
RelativeTo(p, base) ==
    IF IsPrefix(base, p) THEN [ok |-> TRUE, path |-> SubSeq(p, Len(base) + 1, Len(p))]
    ELSE [ok |-> FALSE, path |-> ValueError]

\* text.replace('.git', ''): every occurrence removed, left to right
DotGit == <<".", "g", "i", "t">>

RECURSIVE ReplaceDotGit(_)
ReplaceDotGit(s) ==
    IF s = <<>> THEN <<>>
    ELSE IF OccursAt(s, 0, DotGit) THEN ReplaceDotGit(SubSeq(s, Len(DotGit) + 1, Len(s)))
    ELSE <<Head(s)>> \o ReplaceDotGit(Tail(s))

\* Path(config['analysis']['kernel_repository'].split('/')[-1].replace('.git', ''))
\* kernel_repository is held already split at "/"
RepositoryDir(cfg) ==
    LET url  == cfg.analysis.kernel_repository
        last == url[Len(url)]
        name == ReplaceDotGit(last)
    IN IF name = <<>> THEN <<>> ELSE <<name>>

\* PurePath.match(pattern) for a relative pattern: matched from the right,
\* segment by segment, "*" standing for any one segment
AnySegment == <<"*">>

PathMatch(p, pattern) ==
    /\ Len(pattern) <= Len(p)
    /\ Len(pattern) > 0
    /\ \A i \in 1..Len(pattern) :
          \/ pattern[i] = AnySegment
          \/ pattern[i] = p[Len(p) - Len(pattern) + i]

\* the name ends in ".c" (rglob("*.c"))
HasCSuffix(name) ==
    /\ Len(name) >= 2
    /\ name[Len(name) - 1] = "."
    /\ name[Len(name)] = "c"

-----------------------------------------------------------------------------
(* dict.get(key, default) *)

DictGet(d, key, default) == IF key \in DOMAIN d THEN d[key] ELSE default

-----------------------------------------------------------------------------
(* Regular expressions: the patterns the model carries are a literal text *)
(* (kind "lit"), the anchor ^ (kind "bol") and a text that does not       *)
(* compile (kind "invalid").  A match is a span [start, end) of content.  *)

\* the literal matches at pos under re.IGNORECASE
MatchesAt(content, pos, text) ==
    /\ pos + Len(text) <= Len(content)
    /\ \A i \in 1..Len(text) : Lower(content[pos + i]) = Lower(text[i])

\* the scan of finditer for a literal: leftmost matches, the next search starts
\* at the end of the previous match (one further after an empty match)
RECURSIVE ScanLiteral(_, _, _)
ScanLiteral(content, text, pos) ==
    IF pos > Len(content) THEN <<>>
    ELSE IF MatchesAt(content, pos, text)
         THEN <<[start |-> pos, end |-> pos + Len(text)]>>
              \o ScanLiteral(content, text,
                             IF Len(text) = 0 THEN pos + 1 ELSE pos + Len(text))
         ELSE ScanLiteral(content, text, pos + 1)

\* ^ under re.MULTILINE: at the start of the text and right after every newline
RECURSIVE ScanLineStarts(_, _)
ScanLineStarts(content, pos) ==
    IF pos > Len(content) THEN <<>>
    ELSE IF pos = 0 \/ content[pos] = NL
         THEN <<[start |-> pos, end |-> pos]>> \o ScanLineStarts(content, pos + 1)
         ELSE ScanLineStarts(content, pos + 1)

\* re.finditer compiles the pattern first: re.error for a pattern that does not compile
Compiles(pattern) == pattern.kind # "invalid"

\* variant: only the first match is taken (re.search in place of re.finditer)
FindFirstOnly(pattern, content) ==
    LET all == IF pattern.kind = "lit" THEN ScanLiteral(content, pattern.text, 0)
               ELSE ScanLineStarts(content, 0)
    IN SubSeq(all, 1, Min(1, Len(all)))

\* list(re.finditer(pattern, content, re.IGNORECASE | re.MULTILINE))
FindIter(pattern, content) ==
    IF pattern.kind = "lit" THEN ScanLiteral(content, pattern.text, 0)
    ELSE ScanLineStarts(content, 0)

-----------------------------------------------------------------------------
(* AntiPatternDetector.analyze_file *)

\* variant: the line number is left 0-based
LineNumZeroBased(content, start) == CountNL(Slice(content, 0, start))

\* line_num = content[:match.start()].count('\n') + 1
LineNum(content, start) == CountNL(Slice(content, 0, start)) + 1

\* variant: the window ends with the matched line
GetContextLinesBefore(lines, line_num) ==
    LET start == Max(0, line_num - Context)
        end   == Min(Len(lines), line_num + 1)
    IN Slice(lines, start, end)

\* get_context_lines(lines, line_num, context=3), line_num 0-based
GetContextLines(lines, line_num) ==
    LET start == Max(0, line_num - Context)
        end   == Min(Len(lines), line_num + Context + 1)
    IN Slice(lines, start, end)

\* rule_config.get('severity', 'medium')
Severity(rule_config) == DictGet(rule_config, "severity", "medium")

\* variant: the enabled flag is not consulted
EnabledAlways(rule_config) == TRUE

\* rule_config.get('enabled', True)
Enabled(rule_config) == DictGet(rule_config, "enabled", TRUE)

\* file_path.parent.relative_to(Path(<repository name of the configuration>))
FileDir(cfg, file_path) == RelativeTo(Parent(file_path), RepositoryDir(cfg))

\* any(target_dir in file_dir for target_dir in rule_config.get('directories', []))
InTargetDirectories(rule_config, file_dir) ==
    LET dirs == DictGet(rule_config, "directories", <<>>)
    IN \E i \in 1..Len(dirs) : IsSubstring(dirs[i], file_dir)

\* the finding dict built for one match
MakeFinding(file, lines, rule_name, rule_config, pattern, m) ==
    LET line_num == LineNum(file.content, m.start)
    IN [file     |-> Str(file.path),
        line     |-> line_num,
        pattern  |-> pattern,
        rule     |-> rule_name,
        severity |-> Severity(rule_config),
        match    |-> Slice(file.content, m.start, m.end),
        context  |-> GetContextLines(lines, line_num - 1)]

\* variant: the matches of a pattern are appended last match first
MatchFindingsReversed(file, lines, rule_name, rule_config, pattern) ==
    LET matches == FindIter(pattern, file.content)
    IN [i \in 1..Len(matches) |->
           MakeFinding(file, lines, rule_name, rule_config, pattern,
                       matches[Len(matches) + 1 - i])]

\* for match in matches: findings.append(finding)
MatchFindings(file, lines, rule_name, rule_config, pattern) ==
    LET matches == FindIter(pattern, file.content)
    IN [i \in 1..Len(matches) |->
           MakeFinding(file, lines, rule_name, rule_config, pattern, matches[i])]

\* variant: the try encloses the whole pattern loop, so a pattern that does not
\* compile ends the rule's loop
RECURSIVE PatternFindingsUntilError(_, _, _, _, _)
PatternFindingsUntilError(file, lines, rule_name, rule_config, k) ==
    LET patterns == DictGet(rule_config, "patterns", <<>>)
    IN IF k > Len(patterns) \/ ~Compiles(patterns[k]) THEN <<>>
       ELSE MatchFindings(file, lines, rule_name, rule_config, patterns[k])
            \o PatternFindingsUntilError(file, lines, rule_name, rule_config, k + 1)

\* for pattern in rule_config.get('patterns', []): a pattern raising re.error is
\* logged and skipped
RECURSIVE PatternFindings(_, _, _, _, _)
PatternFindings(file, lines, rule_name, rule_config, k) ==
    LET patterns == DictGet(rule_config, "patterns", <<>>)
    IN IF k > Len(patterns) THEN <<>>
       ELSE (IF Compiles(patterns[k])
             THEN MatchFindings(file, lines, rule_name, rule_config, patterns[k])
             ELSE <<>>)
            \o PatternFindings(file, lines, rule_name, rule_config, k + 1)

\* for rule_name, rule_config in detection_rules.items(): ...
\* acc: exc (the exception that left the function, "none" if it returned),
\* findings, applied (the rules whose patterns were run, in order)
RECURSIVE ScanRules(_, _, _, _, _)
ScanRules(cfg, file, lines, k, acc) ==
    IF k > Len(cfg.detection_rules) THEN acc
    ELSE LET rule_name   == cfg.detection_rules[k].name
             rule_config == cfg.detection_rules[k].config
             file_dir    == FileDir(cfg, file.path)
         IN IF ~Enabled(rule_config) THEN ScanRules(cfg, file, lines, k + 1, acc)
            ELSE IF ~file_dir.ok
                 THEN [acc EXCEPT !.exc = "ValueError", !.findings = <<>>]
            ELSE IF ~InTargetDirectories(rule_config, Str(file_dir.path))
                 THEN ScanRules(cfg, file, lines, k + 1, acc)
            ELSE ScanRules(cfg, file, lines, k + 1,
                     [acc EXCEPT
                        !.findings = @ \o PatternFindings(file, lines, rule_name,
                                                          rule_config, 1),
                        !.applied = Append(@, rule_name)])

NoFindings == [exc |-> "none", findings |-> <<>>, applied |-> <<>>]

\* analyze_file(file_path): an unreadable file is logged and gives no findings;
\* self.config['detection_rules'] raises KeyError when the key is absent
AnalyzeFile(cfg, file) ==
    IF ~file.readable THEN NoFindings
    ELSE IF "detection_rules" \notin DOMAIN cfg
         THEN [exc |-> "KeyError", findings |-> <<>>, applied |-> <<>>]
    ELSE ScanRules(cfg, file, SplitLines(file.content), 1, NoFindings)

-----------------------------------------------------------------------------
(* The file system and the configurations the runs are drawn from *)

linux   == <<"l", "i", "n", "u", "x">>
kernel  == <<"k", "e", "r", "n", "e", "l">>
drivers == <<"d", "r", "i", "v", "e", "r", "s">>
net     == <<"n", "e", "t">>
subnet  == <<"s", "u", "b", "n", "e", "t">>
tests   == <<"t", "e", "s", "t", "s">>
mirror  == <<"m", "i", "r", "r", "o", "r">>
absent  == <<"a", "b", "s", "e", "n", "t">>
samples == <<"s", "a", "m", "p", "l", "e", "s">>

\* file records: path (from the working directory), content (the decoded text),
\* readable (open() succeeds), statable (stat() succeeds), size (st_size)
AllFiles == <<
    [path |-> <<linux, kernel, <<"f", "o", "o", ".", "c">>>>,
     content |-> <<"a", "b", NL, "A", "B", " ", "a", "b", NL>>,
     readable |-> TRUE, statable |-> TRUE, size |-> 9],
    [path |-> <<linux, drivers, subnet, <<"b", "a", "r", ".", "c">>>>,
     content |-> <<"b", "a", "a", "a">>,
     readable |-> TRUE, statable |-> TRUE, size |-> 4],
    [path |-> <<linux, kernel, <<"u", "n", ".", "c">>>>,
     content |-> <<"a", "b">>,
     readable |-> FALSE, statable |-> TRUE, size |-> 2],
    [path |-> <<linux, kernel, <<"b", "i", "g", ".", "c">>>>,
     content |-> <<"a", "b", "a", "b", "a", "b", "a", "b", "a", "b">>,
     readable |-> TRUE, statable |-> TRUE, size |-> 10],
    [path |-> <<mirror, linux, kernel, <<"f", "o", "o", ".", "c">>>>,
     content |-> <<"x", NL, "a", "b">>,
     readable |-> TRUE, statable |-> TRUE, size |-> 4],
    [path |-> <<linux, tests, <<"t", ".", "c">>>>,
     content |-> <<"a", "b">>,
     readable |-> TRUE, statable |-> TRUE, size |-> 2],
    [path |-> <<linux, kernel, <<"f", "o", "o", ".", "h">>>>,
     content |-> <<"a", "b">>,
     readable |-> TRUE, statable |-> TRUE, size |-> 2],
    [path |-> <<samples, <<"l", "o", "n", "g", ".", "c">>>>,
     content |-> <<"a", NL, "b", NL, "c", NL, "d", NL, "e", " ", NL, "f", NL, "g", NL,
                   "h", NL, "i", NL, "j", NL, "k", NL, "l", NL, "m", NL>>,
     readable |-> TRUE, statable |-> TRUE, size |-> 27],
    \* a symbolic link whose target is gone: rglob lists it, stat() raises
    [path |-> <<samples, <<"l", "i", "n", "k", ".", "c">>>>,
     content |-> <<>>,
     readable |-> FALSE, statable |-> FALSE, size |-> 0],
    \* nine lines, the only text on line 5
    [path |-> <<linux, drivers, <<"c", "t", "x", ".", "c">>>>,
     content |-> <<NL, NL, NL, NL, "b", NL, NL, NL, NL>>,
     readable |-> TRUE, statable |-> TRUE, size |-> 9],
    [path |-> <<mirror, linux, <<"t", "o", "p", ".", "c">>>>,
     content |-> <<>>,
     readable |-> TRUE, statable |-> TRUE, size |-> 0]
>>

FileSystem == SubSeq(AllFiles, 1, Min(MaxFiles, Len(AllFiles)))

\* the corpus roots a run may be given: the repository's own directory, a
\* subdirectory of it, a copy of the tree kept elsewhere, a directory that does not exist
Roots == {<<linux>>, <<linux, drivers>>, <<mirror, linux>>, <<absent>>, <<samples>>}

Lit(text) == [kind |-> "lit", text |-> text]
Bol == [kind |-> "bol", text |-> <<"^">>]
Invalid == [kind |-> "invalid", text |-> <<"(">>]

\* detection_rules, in the order of the configuration document
RaceRule ==
    [name |-> "race",
     config |-> [enabled |-> TRUE, severity |-> "high", directories |-> <<kernel>>,
                 patterns |-> <<Lit(<<"a", "b">>), Bol>>]]

NetRule(severity) ==
    [name |-> "net",
     config |-> [severity |-> severity, directories |-> <<net>>,
                 patterns |-> <<Lit(<<"a", "a">>), Invalid, Lit(<<"a">>)>>]]

\* no 'enabled' and no 'severity' key: the defaults of rule_config.get apply
StyleRule ==
    [name |-> "style",
     config |-> [directories |-> <<kernel, drivers>>, patterns |-> <<Lit(<<"b">>)>>]]

OffRule ==
    [name |-> "off",
     config |-> [enabled |-> FALSE, severity |-> "critical", directories |-> <<kernel>>,
                 patterns |-> <<Lit(<<"a">>)>>]]

\* the rule whose findings concurrency_analyzer.py classifies
ConcurrencyRule ==
    [name |-> "concurrency",
     config |-> [enabled |-> TRUE, severity |-> "high", directories |-> <<kernel>>,
                 patterns |-> <<Lit(<<"a", "b">>), Bol>>]]

RuleSets ==
    { <<RaceRule, NetRule("low"), OffRule>>,
      <<ConcurrencyRule, StyleRule>>,
      <<RaceRule, NetRule("urgent"), OffRule>>,
      <<StyleRule, NetRule("critical")>>,
      <<OffRule>> }

\* https://github.com/torvalds/linux.git, split at "/"
KernelRepository ==
    << <<"h", "t", "t", "p", "s", ":">>, <<>>, <<"g", "i", "t", "h", "u", "b">>,
       <<"t", "o", "r", "v", "a", "l", "d", "s">>,
       <<"l", "i", "n", "u", "x", ".", "g", "i", "t">> >>

\* analysis.exclude_patterns: every configuration excludes the files of a tests
\* directory, and all but one also exclude the files directly in a drivers directory
ExcludePatterns(rules) ==
    IF rules = <<StyleRule, NetRule("critical")>>
    THEN << <<tests, AnySegment>> >>
    ELSE << <<tests, AnySegment>>, <<drivers, AnySegment>> >>

Configs ==
    { [analysis |-> [kernel_repository |-> KernelRepository,
                     exclude_patterns |-> ExcludePatterns(rules),
                     max_file_size |-> 9],
       performance |-> [max_concurrent_analyzers |-> w],
       detection_rules |-> rules] :
      w \in 1..MaxWorkers, rules \in RuleSets }

\* a configuration document that parses to a mapping without detection_rules
WithoutDetectionRules(cfg) ==
    [analysis |-> cfg.analysis, performance |-> cfg.performance]

\* the configuration files an instance may be constructed from: no file at the
\* path, a file that is no valid YAML, a file that parses to the document doc
ConfigFiles ==
    {[state |-> "missing", doc |-> <<>>], [state |-> "malformed", doc |-> <<>>]}
      \cup {[state |-> "parsed", doc |-> cfg] : cfg \in Configs}
      \cup {[state |-> "parsed", doc |-> WithoutDetectionRules(cfg)] : cfg \in Configs}

\* load_config(config_path): FileNotFoundError and yaml.YAMLError end the process
\* with sys.exit(1); otherwise the parsed document is returned as is
LoadConfig(file) ==
    IF file.state \in {"missing", "malformed"}
    THEN [exit |-> TRUE, config |-> <<>>]
    ELSE [exit |-> FALSE, config |-> file.doc]

-----------------------------------------------------------------------------
(* AntiPatternDetector.get_c_files *)

\* kernel_dir.rglob("*.c"): the .c files below the root, in the walk's order
RECURSIVE RGlobC(_, _)
RGlobC(kernel_dir, i) ==
    IF i > Len(FileSystem) THEN <<>>
    ELSE (IF /\ IsPrefix(kernel_dir, Parent(FileSystem[i].path))
             /\ HasCSuffix(FileSystem[i].path[Len(FileSystem[i].path)])
          THEN <<i>> ELSE <<>>)
         \o RGlobC(kernel_dir, i + 1)

\* any(file_path.match(pattern) for pattern in exclude_patterns)
Excluded(cfg, file_path) ==
    \E k \in 1..Len(cfg.analysis.exclude_patterns) :
        PathMatch(file_path, cfg.analysis.exclude_patterns[k])

\* variant: a file of exactly max_file_size bytes is skipped too
TooLargeInclusive(cfg, file) == file.size >= cfg.analysis.max_file_size

\* file_path.stat().st_size > max_file_size
TooLarge(cfg, file) == file.size > cfg.analysis.max_file_size

RECURSIVE KeepFiles(_, _, _)
KeepFiles(cfg, found, k) ==
    IF k > Len(found) THEN <<>>
    ELSE (IF Excluded(cfg, FileSystem[found[k]].path) \/ TooLarge(cfg, FileSystem[found[k]])
          THEN <<>> ELSE <<found[k]>>)
         \o KeepFiles(cfg, found, k + 1)

GetCFiles(cfg, root) == KeepFiles(cfg, RGlobC(root, 1), 1)

\* file_path.stat() is outside any try: the OSError of the first file that is not
\* excluded and cannot be stat-ed leaves get_c_files
StatRaises(cfg, root) ==
    LET found == RGlobC(root, 1)
    IN \E k \in 1..Len(found) :
          /\ ~Excluded(cfg, FileSystem[found[k]].path)
          /\ ~FileSystem[found[k]].statable

-----------------------------------------------------------------------------
(* AntiPatternDetector.analyze_kernel *)

SeverityTable == {"critical", "high", "medium", "low"}

\* variant: the counters are kept on the instance and only total_files is set anew
InitialStatisticsKept(total) ==
    IF statistics = <<>>
    THEN [total_files |-> total,
          analyzed_files |-> 0,
          files_with_findings |-> 0,
          total_findings |-> 0,
          findings_by_severity |-> [s \in SeverityTable |-> 0],
          findings_by_rule |-> [r \in {} |-> 0]]
    ELSE [statistics EXCEPT !.total_files = total]

\* the statistics dict built before the pool starts
InitialStatistics(total) ==
    [total_files |-> total,
     analyzed_files |-> 0,
     files_with_findings |-> 0,
     total_findings |-> 0,
     findings_by_severity |-> [s \in SeverityTable |-> 0],
     findings_by_rule |-> [r \in {} |-> 0]]

\* statistics["findings_by_rule"][rule] = statistics["findings_by_rule"].get(rule, 0) + 1
CountRule(by_rule, rule) ==
    [r \in DOMAIN by_rule \cup {rule} |->
        IF r = rule THEN DictGet(by_rule, rule, 0) + 1 ELSE by_rule[r]]

\* for finding in findings: count by severity, then by rule; a severity that is
\* no key of findings_by_severity raises KeyError and leaves the loop
RECURSIVE CountFindings(_, _, _)
CountFindings(st, findings, k) ==
    IF k > Len(findings) THEN [statistics |-> st, raised |-> FALSE]
    ELSE IF findings[k].severity \notin DOMAIN st.findings_by_severity
         THEN [statistics |-> st, raised |-> TRUE]
    ELSE CountFindings(
            [st EXCEPT !.findings_by_severity[findings[k].severity] = @ + 1,
                       !.findings_by_rule = CountRule(@, findings[k].rule)],
            findings, k + 1)

\* variant: analyzed_files counts only the files without findings
CountFileFindingsApart(st, findings) ==
    IF findings = <<>> THEN [st EXCEPT !.analyzed_files = @ + 1]
    ELSE [st EXCEPT !.files_with_findings = @ + 1,
                    !.total_findings = @ + Len(findings)]

\* variant: a file with findings adds one to total_findings, not their number
CountFileOnce(st, findings) ==
    IF findings = <<>> THEN [st EXCEPT !.analyzed_files = @ + 1]
    ELSE [st EXCEPT !.analyzed_files = @ + 1,
                    !.files_with_findings = @ + 1,
                    !.total_findings = @ + 1]

\* the head of the try block: extend all_findings, count the file and its findings
CountFile(st, findings) ==
    IF findings = <<>> THEN [st EXCEPT !.analyzed_files = @ + 1]
    ELSE [st EXCEPT !.analyzed_files = @ + 1,
                    !.files_with_findings = @ + 1,
                    !.total_findings = @ + Len(findings)]

\* variant: all_findings is extended after the counting loop, so an exception of
\* the loop skips it
FoldBatchExtendLast(all, st, outcome) ==
    IF outcome.exc # "none"
    THEN [all_findings |-> all, statistics |-> st, raised |-> TRUE]
    ELSE LET counted == CountFindings(CountFile(st, outcome.findings), outcome.findings, 1)
         IN [all_findings |-> IF counted.raised THEN all ELSE all \o outcome.findings,
             statistics |-> counted.statistics,
             raised |-> counted.raised]

\* the body of the as_completed loop for one future: what it leaves in
\* all_findings and statistics, and whether the except branch logged an error
FoldBatch(all, st, outcome) ==
    IF outcome.exc # "none"
    THEN [all_findings |-> all, statistics |-> st, raised |-> TRUE]
    ELSE LET counted == CountFindings(CountFile(st, outcome.findings), outcome.findings, 1)
         IN [all_findings |-> all \o outcome.findings,
             statistics |-> counted.statistics,
             raised |-> counted.raised]

\* self.results["summary"]
Summary(st) ==
    [total_files_analyzed |-> st.analyzed_files,
     files_with_issues |-> st.files_with_findings,
     total_issues_found |-> st.total_findings,
     critical_issues |-> st.findings_by_severity["critical"],
     high_priority_issues |-> st.findings_by_severity["high"],
     medium_priority_issues |-> st.findings_by_severity["medium"],
     low_priority_issues |-> st.findings_by_severity["low"]]

\* self.results after __init__
EmptyResults == [summary |-> <<>>, findings |-> <<>>, statistics |-> <<>>]

Pending == [exc |-> "pending", findings |-> <<>>, applied |-> <<>>]

\* the results file: not there, no valid JSON, or the JSON text of a document.
\* json.dump and json.load carry the strings, integers, lists and string-keyed
\* dicts of a report over unchanged.
NoResultsFile == [state |-> "absent", doc |-> <<>>]
MalformedResultsFile == [state |-> "malformed", doc |-> <<>>]
JsonFile(doc) == [state |-> "json", doc |-> doc]

\* a results file written by an earlier run of the detector, analysed on its own
FixtureFindings == <<
    [file |-> <<"l", "i", "n", "u", "x", "/", "k", "e", "r", "n", "e", "l", "/", "u", "n", ".", "c">>, line |-> 1, rule |-> "concurrency", severity |-> "high",
     pattern |-> Lit(<<"r", "a", "c", "e">>), match |-> <<"r", "a", "c", "e", "\n", "c", "o", "n", "d", "i", "t", "i", "o", "n">>],
    [file |-> <<"l", "i", "n", "u", "x", "/", "k", "e", "r", "n", "e", "l", "/", "f", "o", "o", ".", "c">>, line |-> 1, rule |-> "concurrency", severity |-> "high",
     pattern |-> Lit(<<"r", "a", "c", "e">>), match |-> <<"R", "a", "c", "e", " ", "C", "o", "n", "d", "i", "t", "i", "o", "n">>,
     context |-> << <<"a", "b">> >>],
    [file |-> <<"l", "i", "n", "u", "x", "/", "k", "e", "r", "n", "e", "l", "/", "f", "o", "o", ".", "c">>, line |-> 2, rule |-> "memory_leak", severity |-> "low",
     pattern |-> Lit(<<"R", "C", "U">>), match |-> <<"R", "C", "U">>],
    [file |-> <<"l", "i", "n", "u", "x", "/", "k", "e", "r", "n", "e", "l", "/", "f", "o", "o", ".", "c">>, line |-> 2, rule |-> "concurrency", severity |-> "high",
     pattern |-> Lit(<<"a", "t", "o", "m", "i", "c">>), match |-> <<"a", "t", "o", "m", "i", "c", " ", "s", "p", "i", "n", "l", "o", "c", "k">>],
    [file |-> <<"l", "i", "n", "u", "x", "/", "k", "e", "r", "n", "e", "l", "/", "g", "o", "n", "e", ".", "c">>, line |-> 4, rule |-> "concurrency", severity |-> "medium",
     pattern |-> Lit(<<"s", "p", "i", "n">>), match |-> <<"s", "p", "i", "n", " ", "l", "o", "c", "k">>],
    [file |-> <<"s", "a", "m", "p", "l", "e", "s", "/", "l", "o", "n", "g", ".", "c">>, line |-> 7, rule |-> "concurrency", severity |-> "medium",
     pattern |-> Lit(<<"R", "C", "U">>), match |-> <<"R", "C", "U">>]
>>

FixtureDocument ==
    [summary |-> <<>>, findings |-> FixtureFindings, statistics |-> <<>>]

\* a results file whose second finding has no rule field
RulelessDocument ==
    [summary |-> <<>>,
     findings |-> <<FixtureFindings[2],
                    [file |-> <<"l", "i", "n", "u", "x", "/", "a", ".", "c">>, line |-> 1,
                     severity |-> "low", pattern |-> Lit(<<"R", "C", "U">>),
                     match |-> <<"R", "C", "U">>],
                    FixtureFindings[4]>>,
     statistics |-> <<>>]

ResultsFiles ==
    {NoResultsFile, MalformedResultsFile, JsonFile(FixtureDocument),
     JsonFile(RulelessDocument)}

\* the kernel_path arguments of extract_code_snippets: its default "linux", and "."
SnippetRoots == {<<linux>>, <<>>}

TypeOK ==
    /\ pc \in {"exited", "idle", "collecting", "done", "saved", "crashed"}
    /\ analyzer_pc \in {"new", "returned", "loaded", "classified", "reclassified",
                       "extracted", "saved"}
    /\ run \in 0..MaxRuns
    /\ DOMAIN task = 1..Len(c_files)

Init ==
    /\ config_file \in ConfigFiles
    /\ config = LoadConfig(config_file).config
    /\ kernel_path \in Roots
    /\ pc = IF LoadConfig(config_file).exit THEN "exited" ELSE "idle"
    /\ c_files = <<>>
    /\ task = <<>>
    /\ future = <<>>
    /\ all_findings = <<>>
    /\ statistics = <<>>
    /\ results = EmptyResults
    /\ errorLog = <<>>
    /\ run = 0
    /\ prev = EmptyResults
    /\ results_file \in ResultsFiles
    \* a results file left by an earlier run is analysed on its own: no detector
    \* instance comes up next to it
    /\ results_file.state # "absent" => config_file.state = "missing"
    /\ analyzer_pc = "new"
    /\ concurrency_issues = <<>>
    /\ classified_issues = <<>>
    /\ snippet_root = <<>>
    /\ report_data = <<>>

\* analyze_kernel up to the submission of every file to the pool; an exception
\* of get_c_files leaves analyze_kernel and main
StartRun ==
    /\ pc \in {"idle", "done"}
    /\ run < MaxRuns
    /\ run' = run + 1
    /\ IF StatRaises(config, kernel_path)
       THEN /\ pc' = "crashed"
            /\ UNCHANGED <<c_files, task, future, statistics, all_findings, errorLog, prev>>
       ELSE /\ LET files == GetCFiles(config, kernel_path)
               IN /\ c_files' = files
                  /\ task' = [i \in 1..Len(files) |-> "queued"]
                  /\ future' = [i \in 1..Len(files) |-> Pending]
                  /\ statistics' = InitialStatistics(Len(files))
            /\ all_findings' = <<>>
            /\ errorLog' = <<>>
            /\ pc' = "collecting"
            /\ prev' = results
    /\ UNCHANGED <<results_file, analyzerVars, config_file, config, kernel_path, results>>

\* a pool thread takes the next queued task (the work queue is FIFO)
WorkerStart(i) ==
    /\ pc = "collecting"
    /\ task[i] = "queued"
    /\ \A j \in 1..(i - 1) : task[j] # "queued"
    /\ Cardinality({j \in DOMAIN task : task[j] = "running"})
          < config.performance.max_concurrent_analyzers
    /\ task' = [task EXCEPT ![i] = "running"]
    /\ UNCHANGED <<results_file, analyzerVars, config_file, config, kernel_path, pc, c_files, future, all_findings,
                   statistics, results, errorLog, run, prev>>

\* variant: the worker appends its findings to the shared list itself
WorkerFinishAppends(i) ==
    /\ pc = "collecting"
    /\ task[i] = "running"
    /\ future' = [future EXCEPT ![i] = AnalyzeFile(config, FileSystem[c_files[i]])]
    /\ task' = [task EXCEPT ![i] = "finished"]
    /\ all_findings' = all_findings \o AnalyzeFile(config, FileSystem[c_files[i]]).findings
    /\ UNCHANGED <<results_file, analyzerVars, config_file, config, kernel_path, pc, c_files,
                   statistics, results, errorLog, run, prev>>

\* the thread runs analyze_file and completes the future
WorkerFinish(i) ==
    /\ pc = "collecting"
    /\ task[i] = "running"
    /\ future' = [future EXCEPT ![i] = AnalyzeFile(config, FileSystem[c_files[i]])]
    /\ task' = [task EXCEPT ![i] = "finished"]
    /\ UNCHANGED <<results_file, analyzerVars, config_file, config, kernel_path, pc, c_files, all_findings,
                   statistics, results, errorLog, run, prev>>

\* one iteration of `for future in as_completed(future_to_file)`
Consume(i) ==
    /\ pc = "collecting"
    /\ task[i] = "finished"
    /\ LET folded == FoldBatch(all_findings, statistics, future[i])
       IN /\ all_findings' = folded.all_findings
          /\ statistics' = folded.statistics
          /\ errorLog' = IF folded.raised THEN Append(errorLog, c_files[i]) ELSE errorLog
    /\ task' = [task EXCEPT ![i] = "consumed"]
    /\ UNCHANGED <<results_file, analyzerVars, config_file, config, kernel_path, pc, c_files, future, results, run, prev>>

\* variant: the results are compiled as soon as every task was taken by a thread
CompileEarly ==
    /\ pc = "collecting"
    /\ \A i \in DOMAIN task : task[i] # "queued"
    /\ results' = [summary |-> Summary(statistics),
                   findings |-> all_findings,
                   statistics |-> statistics]
    /\ pc' = "done"
    /\ UNCHANGED <<results_file, analyzerVars, config_file, config, kernel_path, c_files, task, future, all_findings,
                   statistics, errorLog, run, prev>>

\* after the loop: compile self.results and return it
Compile ==
    /\ pc = "collecting"
    /\ \A i \in DOMAIN task : task[i] = "consumed"
    /\ results' = [summary |-> Summary(statistics),
                   findings |-> all_findings,
                   statistics |-> statistics]
    /\ pc' = "done"
    /\ UNCHANGED <<results_file, analyzerVars, config_file, config, kernel_path, c_files, task, future, all_findings,
                   statistics, errorLog, run, prev>>

-----------------------------------------------------------------------------
(* AntiPatternDetector.save_results *)

\* save_results(output_file), the last step of main: only the JSON format is written
SaveResults ==
    /\ pc = "done"
    /\ results_file' =
          IF DictGet(DictGet(config, "output", <<>>), "report_format", "json") = "json"
          THEN JsonFile(results)
          ELSE results_file
    /\ pc' = "saved"
    /\ UNCHANGED <<analyzerVars, config_file, config, kernel_path, c_files, task, future,
                   all_findings, statistics, results, errorLog, run, prev>>

-----------------------------------------------------------------------------
(* ConcurrencyAnalyzer (src/scripts/analysis/concurrency_analyzer.py) *)

\* a pattern of the category table: literal parts separated by ".*"
Wild(parts) == [kind |-> "wild", parts |-> parts]

\* the dict concurrency_patterns, in the order of its keys
concurrency_patterns == <<
    [category |-> "race_condition",
     description |-> "Race conditions between concurrent threads/processes",
     patterns |-> <<
          Wild(<<<<"r", "a", "c", "e">>, <<"c", "o", "n", "d", "i", "t", "i", "o", "n">>>>),
          Wild(<<<<"r", "a", "c", "e">>, <<"b", "e", "t", "w", "e", "e", "n">>>>),
          Wild(<<<<"c", "o", "n", "c", "u", "r", "r", "e", "n", "t">>, <<"a", "c", "c", "e", "s", "s">>>>),
          Wild(<<<<"p", "a", "r", "a", "l", "l", "e", "l">>, <<"a", "c", "c", "e", "s", "s">>>>),
          Wild(<<<<"t", "h", "r", "e", "a", "d">>, <<"s", "a", "f", "e", "t", "y">>>>),
          Wild(<<<<"a", "t", "o", "m", "i", "c">>, <<"o", "p", "e", "r", "a", "t", "i", "o", "n">>>>),
          Wild(<<<<"d", "a", "t", "a">>, <<"r", "a", "c", "e">>>>) >>],
    [category |-> "deadlock",
     description |-> "Deadlock scenarios and lock ordering issues",
     patterns |-> <<
          Wild(<<<<"d", "e", "a", "d", "l", "o", "c", "k">>>>),
          Wild(<<<<"l", "o", "c", "k">>, <<"o", "r", "d", "e", "r">>>>),
          Wild(<<<<"c", "i", "r", "c", "u", "l", "a", "r">>, <<"d", "e", "p", "e", "n", "d", "e", "n", "c", "y">>>>),
          Wild(<<<<"l", "o", "c", "k">>, <<"i", "n", "v", "e", "r", "s", "i", "o", "n">>>>),
          Wild(<<<<"p", "r", "i", "o", "r", "i", "t", "y">>, <<"i", "n", "v", "e", "r", "s", "i", "o", "n">>>>) >>],
    [category |-> "missing_lock",
     description |-> "Missing locks for shared resource protection",
     patterns |-> <<
          Wild(<<<<"m", "i", "s", "s", "i", "n", "g">>, <<"l", "o", "c", "k">>>>),
          Wild(<<<<"n", "o">>, <<"l", "o", "c", "k">>>>),
          Wild(<<<<"u", "n", "p", "r", "o", "t", "e", "c", "t", "e", "d">>, <<"a", "c", "c", "e", "s", "s">>>>),
          Wild(<<<<"w", "i", "t", "h", "o", "u", "t">>, <<"l", "o", "c", "k">>>>),
          Wild(<<<<"l", "o", "c", "k">>, <<"m", "i", "s", "s", "i", "n", "g">>>>) >>],
    [category |-> "double_lock",
     description |-> "Double locking or reentrant lock issues",
     patterns |-> <<
          Wild(<<<<"d", "o", "u", "b", "l", "e">>, <<"l", "o", "c", "k">>>>),
          Wild(<<<<"r", "e", "e", "n", "t", "r", "a", "n", "t">>, <<"l", "o", "c", "k">>>>),
          Wild(<<<<"l", "o", "c", "k">>, <<"t", "w", "i", "c", "e">>>>),
          Wild(<<<<"d", "u", "p", "l", "i", "c", "a", "t", "e">>, <<"l", "o", "c", "k">>>>) >>],
    [category |-> "spinlock_issue",
     description |-> "Spinlock-related issues and CPU spinning",
     patterns |-> <<
          Wild(<<<<"s", "p", "i", "n", "l", "o", "c", "k">>>>),
          Wild(<<<<"s", "p", "i", "n">>, <<"l", "o", "c", "k">>>>),
          Wild(<<<<"b", "u", "s", "y">>, <<"w", "a", "i", "t">>>>),
          Wild(<<<<"c", "p", "u">>, <<"s", "p", "i", "n">>>>) >>],
    [category |-> "mutex_issue",
     description |-> "Mutex, semaphore, and read-write lock issues",
     patterns |-> <<
          Wild(<<<<"m", "u", "t", "e", "x">>>>),
          Wild(<<<<"s", "e", "m", "a", "p", "h", "o", "r", "e">>>>),
          Wild(<<<<"r", "w", "l", "o", "c", "k">>>>),
          Wild(<<<<"r", "e", "a", "d">>, <<"w", "r", "i", "t", "e">>, <<"l", "o", "c", "k">>>>) >>],
    [category |-> "memory_barrier",
     description |-> "Memory ordering and barrier issues",
     patterns |-> <<
          Wild(<<<<"m", "e", "m", "o", "r", "y">>, <<"b", "a", "r", "r", "i", "e", "r">>>>),
          Wild(<<<<"b", "a", "r", "r", "i", "e", "r">>>>),
          Wild(<<<<"f", "e", "n", "c", "e">>>>),
          Wild(<<<<"o", "r", "d", "e", "r", "i", "n", "g">>, <<"g", "u", "a", "r", "a", "n", "t", "e", "e">>>>) >>],
    [category |-> "atomic_operation",
     description |-> "Atomic operation issues",
     patterns |-> <<
          Wild(<<<<"a", "t", "o", "m", "i", "c">>, <<>>>>),
          Wild(<<<<"c", "m", "p", "x", "c", "h", "g">>>>),
          Wild(<<<<"x", "c", "h", "g">>>>),
          Wild(<<<<"a", "t", "o", "m", "i", "c">>, <<"r", "e", "a", "d">>>>),
          Wild(<<<<"a", "t", "o", "m", "i", "c">>, <<"w", "r", "i", "t", "e">>>>) >>],
    [category |-> "irq_lock",
     description |-> "Interrupt-related locking issues",
     patterns |-> <<
          Wild(<<<<"i", "r", "q">>, <<"l", "o", "c", "k">>>>),
          Wild(<<<<"i", "n", "t", "e", "r", "r", "u", "p", "t">>, <<"l", "o", "c", "k">>>>),
          Wild(<<<<"i", "r", "q">>, <<"s", "a", "v", "e">>>>),
          Wild(<<<<"i", "r", "q">>, <<"r", "e", "s", "t", "o", "r", "e">>>>) >>],
    [category |-> "rcu_issue",
     description |-> "Read-Copy Update (RCU) related issues",
     patterns |-> <<
          Wild(<<<<"r", "c", "u">>>>),
          Wild(<<<<"r", "e", "a", "d">>, <<"c", "o", "p", "y">>, <<"u", "p", "d", "a", "t", "e">>>>),
          Wild(<<<<"r", "c", "u">>, <<"l", "o", "c", "k">>>>),
          Wild(<<<<"r", "c", "u">>, <<"u", "n", "l", "o", "c", "k">>>>) >>]
>>

\* str.lower()
LowerText(text) == [i \in 1..Len(text) |-> Lower(text[i])]

\* parts[k..] match from position `from` on, each after a run of ".*": any
\* characters except a newline
RECURSIVE MatchRest(_, _, _, _)
MatchRest(text, parts, k, from) ==
    IF k > Len(parts) THEN TRUE
    ELSE \E pos \in from..Len(text) :
            /\ \A j \in (from + 1)..pos : text[j] # NL
            /\ MatchesAt(text, pos, parts[k])
            /\ MatchRest(text, parts, k + 1, pos + Len(parts[k]))

\* re.search(pattern, text, re.IGNORECASE) is not None
Search(pattern, text) ==
    \E start \in 0..Len(text) :
        /\ MatchesAt(text, start, pattern.parts[1])
        /\ MatchRest(text, pattern.parts, 2, start + Len(pattern.parts[1]))

\* variant: no filter, every finding of the document is taken
FilterNone(findings) == findings

\* [issue for issue in data['findings'] if issue['rule'] == 'concurrency']
RECURSIVE FilterConcurrency(_)
FilterConcurrency(findings) ==
    IF findings = <<>> THEN <<>>
    ELSE (IF Head(findings).rule = "concurrency" THEN <<Head(findings)>> ELSE <<>>)
         \o FilterConcurrency(Tail(findings))

\* for pattern in config['patterns']: the first pattern found in the text, 0 if none
RECURSIVE FirstPattern(_, _, _)
FirstPattern(patterns, text, j) ==
    IF j > Len(patterns) THEN 0
    ELSE IF Search(patterns[j], text) THEN j
    ELSE FirstPattern(patterns, text, j + 1)

NoMatch == [matched |-> FALSE, category |-> 0, pattern |-> 0]

\* variant: the loops do not break, the last matching category and pattern win
RECURSIVE LastCategory(_, _)
LastCategory(text, k) ==
    IF k > Len(concurrency_patterns) THEN NoMatch
    ELSE LET later == LastCategory(text, k + 1)
             hits  == {j \in 1..Len(concurrency_patterns[k].patterns) :
                          Search(concurrency_patterns[k].patterns[j], text)}
         IN IF later.matched THEN later
            ELSE IF hits # {}
                 THEN [matched |-> TRUE, category |-> k,
                       pattern |-> CHOOSE j \in hits : \A h \in hits : h <= j]
            ELSE NoMatch

\* for category, config in concurrency_patterns.items(): the first category with
\* a matching pattern; both loops break at the first match
RECURSIVE FirstCategory(_, _)
FirstCategory(text, k) ==
    IF k > Len(concurrency_patterns) THEN NoMatch
    ELSE LET j == FirstPattern(concurrency_patterns[k].patterns, text, 1)
         IN IF j # 0 THEN [matched |-> TRUE, category |-> k, pattern |-> j]
            ELSE FirstCategory(text, k + 1)

\* variant: a finding that no category matches is put into the last declared category
ClassifyIssueNoFallback(issue) ==
    LET hit == FirstCategory(LowerText(issue.match), 1)
        k   == IF hit.matched THEN hit.category ELSE Len(concurrency_patterns)
        j   == IF hit.matched THEN hit.pattern ELSE 1
    IN [category |-> concurrency_patterns[k].category,
        entry |-> [file |-> issue.file, line |-> issue.line, match |-> issue.match,
                   context |-> DictGet(issue, "context", <<>>),
                   pattern |-> concurrency_patterns[k].patterns[j],
                   description |-> concurrency_patterns[k].description]]

\* the body of `for issue in self.concurrency_issues`: the category the issue is
\* appended to and the dict appended
ClassifyIssue(issue) ==
    LET hit == FirstCategory(LowerText(issue.match), 1)
    IN IF hit.matched
       THEN [category |-> concurrency_patterns[hit.category].category,
             entry |-> [file |-> issue.file, line |-> issue.line, match |-> issue.match,
                        context |-> DictGet(issue, "context", <<>>),
                        pattern |-> concurrency_patterns[hit.category].patterns[hit.pattern],
                        description |-> concurrency_patterns[hit.category].description]]
       ELSE [category |-> "general_concurrency",
             entry |-> [file |-> issue.file, line |-> issue.line, match |-> issue.match,
                        context |-> DictGet(issue, "context", <<>>),
                        pattern |-> issue.pattern,
                        description |-> "General concurrency issues"]]

\* defaultdict(list): d[key].append(x)
DictAppend(d, key, x) ==
    [c \in DOMAIN d \cup {key} |-> IF c = key THEN Append(DictGet(d, key, <<>>), x) ELSE d[c]]

\* classify_concurrency_issues(): the issues are appended to self.classified_issues
RECURSIVE ClassifyAll(_, _)
ClassifyAll(classified, issues) ==
    IF issues = <<>> THEN classified
    ELSE LET c == ClassifyIssue(Head(issues))
         IN ClassifyAll(DictAppend(classified, c.category, c.entry), Tail(issues))

\* Path(text): the segments between "/", empty and "." segments dropped
RECURSIVE PathFrom(_, _, _)
PathFrom(text, i, cur) ==
    LET seg == IF cur = <<>> \/ cur = <<".">> THEN <<>> ELSE <<cur>>
    IN IF i > Len(text) THEN seg
       ELSE IF text[i] = "/" THEN seg \o PathFrom(text, i + 1, <<>>)
       ELSE PathFrom(text, i + 1, Append(cur, text[i]))

ParsePath(text) == PathFrom(text, 1, <<>>)

\* file_path.exists()
Exists(path) == \E i \in 1..Len(FileSystem) : FileSystem[i].path = path

FileAt(path) == FileSystem[CHOOSE i \in 1..Len(FileSystem) : FileSystem[i].path = path]

\* f.readlines(): the lines with their terminators; a trailing newline opens no
\* further line
RECURSIVE ReadLinesFrom(_, _, _)
ReadLinesFrom(s, i, cur) ==
    IF i > Len(s) THEN (IF cur = <<>> THEN <<>> ELSE <<cur>>)
    ELSE IF s[i] = NL THEN <<Append(cur, NL)>> \o ReadLinesFrom(s, i + 1, <<>>)
    ELSE ReadLinesFrom(s, i + 1, Append(cur, s[i]))

ReadLines(content) == ReadLinesFrom(content, 1, <<>>)

\* str.rstrip()
RECURSIVE RStrip(_)
RStrip(line) ==
    IF line # <<>> /\ line[Len(line)] \in {" ", NL, "\t", "\r"}
    THEN RStrip(SubSeq(line, 1, Len(line) - 1))
    ELSE line

\* extract_code_snippets: 5 lines before and after
SnippetContext == 5

MatchPrefix == ">>> "
ContextPrefix == "    "

\* f"{prefix}{i+1:4d}: {lines[i].rstrip()}" for i in range(start, end)
CodeSnippet(lines, line) ==
    LET line_num == line - 1
        start    == Max(0, line_num - SnippetContext)
        end      == Min(Len(lines), line_num + SnippetContext + 1)
    IN [k \in 1..(end - start) |->
           LET i == start + k - 1
           IN [prefix |-> IF i = line_num THEN MatchPrefix ELSE ContextPrefix,
               number |-> i + 1,
               text   |-> RStrip(lines[i + 1])]]

FileNotFound(file_path) ==
    <<[prefix |-> "File not found: ", number |-> 0, text |-> Str(file_path)]>>

\* the text of the exception names the path
ErrorReading(file_path) ==
    <<[prefix |-> "Error reading file: ", number |-> 0, text |-> Str(file_path)]>>

\* variant: a file that cannot be read leaves the issue without snippet lines
SnippetNoPlaceholder(kernel_dir, issue) ==
    LET file_path == kernel_dir \o ParsePath(issue.file)
    IN IF ~Exists(file_path) \/ ~FileAt(file_path).readable THEN <<>>
       ELSE CodeSnippet(ReadLines(FileAt(file_path).content), issue.line)

\* the code_snippet extract_code_snippets stores for one issue
Snippet(kernel_dir, issue) ==
    LET file_path == kernel_dir \o ParsePath(issue.file)
    IN IF ~Exists(file_path) THEN FileNotFound(file_path)
       ELSE IF ~FileAt(file_path).readable THEN ErrorReading(file_path)
       ELSE CodeSnippet(ReadLines(FileAt(file_path).content), issue.line)

\* d[key] = value
DictSet(d, key, value) ==
    [c \in DOMAIN d \cup {key} |-> IF c = key THEN value ELSE d[c]]

\* extract_code_snippets(kernel_path): every issue of every category gets its snippet
WithSnippets(classified, kernel_dir) ==
    [c \in DOMAIN classified |->
        [k \in 1..Len(classified[c]) |->
            DictSet(classified[c][k], "code_snippet", Snippet(kernel_dir, classified[c][k]))]]

\* report_data of save_detailed_report
ReportData(issues, classified) ==
    [summary |-> [total_concurrency_issues |-> Len(issues),
                  categories_found |-> Cardinality(DOMAIN classified),
                  analysis_date |-> "2025-06-29"],
     categories |-> [c \in DOMAIN classified |->
                        [count |-> Len(classified[c]),
                         description |-> IF classified[c] # <<>>
                                         THEN classified[c][1].description ELSE "",
                         issues |-> classified[c]]]]

\* the findings before the first one without a rule field
RECURSIVE BeforeRuleless(_)
BeforeRuleless(findings) ==
    IF findings = <<>> \/ "rule" \notin DOMAIN Head(findings) THEN <<>>
    ELSE <<Head(findings)>> \o BeforeRuleless(Tail(findings))

\* variant: the issues are appended to self.concurrency_issues one by one, so a
\* finding without rule leaves the ones before it loaded
LoadOutcomeAppending(file, loaded) ==
    IF file.state # "json" \/ "findings" \notin DOMAIN file.doc
    THEN [ok |-> FALSE, concurrency_issues |-> loaded]
    ELSE IF \E k \in 1..Len(file.doc.findings) : "rule" \notin DOMAIN file.doc.findings[k]
    THEN [ok |-> FALSE,
          concurrency_issues |-> FilterConcurrency(BeforeRuleless(file.doc.findings))]
    ELSE [ok |-> TRUE, concurrency_issues |-> FilterConcurrency(file.doc.findings)]

\* the try block of load_results: open() raises FileNotFoundError, json.load
\* raises on invalid JSON, data['findings'] and issue['rule'] raise KeyError; the
\* list is assigned only when the whole comprehension was evaluated
LoadOutcome(file, loaded) ==
    IF file.state # "json" \/ "findings" \notin DOMAIN file.doc
    THEN [ok |-> FALSE, concurrency_issues |-> loaded]
    ELSE IF \E k \in 1..Len(file.doc.findings) : "rule" \notin DOMAIN file.doc.findings[k]
    THEN [ok |-> FALSE, concurrency_issues |-> loaded]
    ELSE [ok |-> TRUE, concurrency_issues |-> FilterConcurrency(file.doc.findings)]

\* run_analysis() up to `if not self.load_results(): return`
LoadResults ==
    /\ analyzer_pc = "new"
    /\ LET outcome == LoadOutcome(results_file, concurrency_issues)
       IN /\ concurrency_issues' = outcome.concurrency_issues
          /\ analyzer_pc' = IF outcome.ok THEN "loaded" ELSE "returned"
    /\ UNCHANGED <<detectorVars, results_file, classified_issues, snippet_root, report_data>>

\* classify_concurrency_issues()
Classify ==
    /\ analyzer_pc = "loaded"
    /\ classified_issues' = ClassifyAll(classified_issues, concurrency_issues)
    /\ analyzer_pc' = "classified"
    /\ UNCHANGED <<detectorVars, results_file, concurrency_issues, snippet_root, report_data>>

\* classify_concurrency_issues() called once more on the same instance, the loaded
\* findings unchanged
ClassifyAgain ==
    /\ analyzer_pc = "classified"
    /\ classified_issues' = ClassifyAll(classified_issues, concurrency_issues)
    /\ analyzer_pc' = "reclassified"
    /\ UNCHANGED <<detectorVars, results_file, concurrency_issues, snippet_root, report_data>>

\* extract_code_snippets(kernel_path)
ExtractSnippets(root) ==
    /\ analyzer_pc = "classified"
    /\ classified_issues' = WithSnippets(classified_issues, root)
    /\ snippet_root' = root
    /\ analyzer_pc' = "extracted"
    /\ UNCHANGED <<detectorVars, results_file, concurrency_issues, report_data>>

\* save_detailed_report()
SaveDetailedReport ==
    /\ analyzer_pc = "extracted"
    /\ report_data' = ReportData(concurrency_issues, classified_issues)
    /\ analyzer_pc' = "saved"
    /\ UNCHANGED <<detectorVars, results_file, concurrency_issues, classified_issues,
                   snippet_root>>

Next ==
    \/ StartRun
    \/ \E i \in DOMAIN task : WorkerStart(i)
    \/ \E i \in DOMAIN task : WorkerFinish(i)
    \/ \E i \in DOMAIN task : Consume(i)
    \/ Compile
    \/ SaveResults
    \/ LoadResults
    \/ Classify
    \/ ClassifyAgain
    \/ \E root \in SnippetRoots : ExtractSnippets(root)
    \/ SaveDetailedReport

Spec == Init /\ [][Next]_vars

\* the scheduling of one analyze_kernel call: a pool thread takes a queued task
\* whenever fewer than max_workers are running, the result loop is handed every
\* completed future, and the code after the loop runs once the loop is
\* exhausted. Whether a started analysis ends is left open.
FairSpec ==
    /\ Spec
    /\ WF_vars(\E i \in DOMAIN task : WorkerStart(i))
    /\ WF_vars(\E i \in DOMAIN task : Consume(i))
    /\ WF_vars(Compile)

-----------------------------------------------------------------------------
(* Helpers of the properties *)

RECURSIVE BagOfSeq(_)
BagOfSeq(s) == IF s = <<>> THEN EmptyBag ELSE SetToBag({Head(s)}) (+) BagOfSeq(Tail(s))

RECURSIVE SumOver(_, _)
SumOver(f, S) ==
    IF S = {} THEN 0
    ELSE LET x == CHOOSE y \in S : TRUE IN f[x] + SumOver(f, S \ {x})

\* number of findings of the list that are of the given file / of the given rule
CountOfFile(findings, file_str) ==
    Cardinality({k \in 1..Len(findings) : findings[k].file = file_str})

CountOfRule(findings, rule) ==
    Cardinality({k \in 1..Len(findings) : findings[k].rule = rule})

\* the rules of a configuration, none when the document has no detection_rules
DetectionRules(cfg) == DictGet(cfg, "detection_rules", <<>>)

RuleNames == {DetectionRules(config)[k].name : k \in 1..Len(DetectionRules(config))}

FileOf(i) == FileSystem[c_files[i]]

Submitted == 1..Len(c_files)

Consumed == {i \in Submitted : task[i] = "consumed"}

\* the futures that hold a list returned by analyze_file
Returned == {i \in Submitted : future[i].exc = "none"}

\* the files whose iteration of the result loop ended in the except branch
Failed == {i \in Submitted : \E k \in 1..Len(errorLog) : errorLog[k] = c_files[i]}

-----------------------------------------------------------------------------
(* C1 *)

\* C1: after analyze_kernel completes, statistics.total_findings equals the number
\* of entries of the report's findings list, whatever the files, the per-file
\* results and the completion order of the workers.
C1_TotalFindingsIsLength ==
    pc = "done" => results.statistics.total_findings = Len(results.findings)

\* a completed run whose report holds the findings of two files, one of which
\* failed while it was folded
C1_Witness ==
    /\ pc = "done"
    /\ results.statistics.files_with_findings >= 2
    /\ Len(results.findings) >= 2
    /\ errorLog # <<>>

-----------------------------------------------------------------------------
(* C2 *)

\* C2: after analyze_kernel completes, the sum of statistics.findings_by_severity
\* over all severity keys equals statistics.total_findings, for every rule
\* configuration the detector accepts at startup.
C2_SeveritySumIsTotal ==
    pc = "done" =>
        SumOver(results.statistics.findings_by_severity,
                DOMAIN results.statistics.findings_by_severity)
            = results.statistics.total_findings

-----------------------------------------------------------------------------
(* C3 *)

\* C3: once a per-file batch has been folded, and at the end of the run, the
\* statistics equal their recomputation from the accumulated findings: per rule
\* name, findings_by_rule (0 when absent) is the number of accumulated findings of
\* that rule, and files_with_findings is the number of folded files that produced
\* at least one finding.
C3_StatisticsAreRecomputation ==
    pc \in {"collecting", "done"} =>
        /\ \A r \in RuleNames :
              DictGet(statistics.findings_by_rule, r, 0) = CountOfRule(all_findings, r)
        /\ statistics.files_with_findings
              = Cardinality({i \in Consumed \cap Returned : future[i].findings # <<>>})

-----------------------------------------------------------------------------
(* C4 *)

\* C4: the findings list of the report is the multiset union of the lists
\* analyze_file returned for the enumerated files: every per-file finding appears
\* exactly once, whatever the order in which the workers complete.
RECURSIVE ReturnedBag(_)
ReturnedBag(i) ==
    IF i = 0 THEN EmptyBag
    ELSE (IF i \in Returned THEN BagOfSeq(future[i].findings) ELSE EmptyBag)
         (+) ReturnedBag(i - 1)

C4_ReportIsUnionOfFileResults ==
    pc = "done" => BagOfSeq(results.findings) = ReturnedBag(Len(c_files))

\* a completed run in which the second submitted file was folded before the first
\* and both produced findings
C4_Witness ==
    /\ pc = "done"
    /\ Len(c_files) >= 2
    /\ future[1].findings # <<>>
    /\ future[2].findings # <<>>
    /\ results.findings[1].file = Str(FileOf(2).path)

-----------------------------------------------------------------------------
(* C5 *)

\* the report of a run that folds the files one after the other in the order of
\* get_c_files: a function of the rules, the root and the file system alone
RECURSIVE FoldInOrder(_, _, _)
FoldInOrder(files, k, acc) ==
    IF k > Len(files) THEN acc
    ELSE FoldInOrder(files, k + 1,
            FoldBatch(acc.all_findings, acc.statistics,
                      AnalyzeFile(config, FileSystem[files[k]])))

InOrderReport ==
    LET files == GetCFiles(config, kernel_path)
    IN FoldInOrder(files, 1, [all_findings |-> <<>>,
                              statistics |-> InitialStatistics(Len(files)),
                              raised |-> FALSE])

\* C5: the final finding multiset and the final statistics are a function of the
\* corpus and the rules only: every pool size and every completion order give the
\* multiset and the statistics of the in-order run, and a second run on the same
\* detector instance gives those of the first.
C5_ReportIsDeterministic ==
    pc = "done" =>
        /\ BagOfSeq(results.findings) = BagOfSeq(InOrderReport.all_findings)
        /\ results.statistics = InOrderReport.statistics
        /\ run >= 2 =>
              /\ BagOfSeq(results.findings) = BagOfSeq(prev.findings)
              /\ results.statistics = prev.statistics

\* the second run of an instance with a pool of two completed, its findings in
\* another order than those of the first run
C5_Witness ==
    /\ pc = "done"
    /\ run = 2
    /\ config.performance.max_concurrent_analyzers = 2
    /\ Len(results.findings) >= 2
    /\ results.findings # prev.findings
    /\ results.findings # InOrderReport.all_findings

-----------------------------------------------------------------------------
(* C6 *)

\* C6: a failure while analysing or folding one file never aborts the run and
\* never affects other files: the run completes, the findings of every other file
\* are all in the report and counted, and the failing file contributes no finding
\* to the report's list and nothing to the statistics' counters of findings.
C6_FailureContributesNothing ==
    pc = "done" =>
        /\ \A i \in Failed : CountOfFile(results.findings, Str(FileOf(i).path)) = 0
        /\ \A i \in Submitted \ Failed :
              CountOfFile(results.findings, Str(FileOf(i).path)) = Len(future[i].findings)
        /\ results.statistics.total_findings
              = SumOver([i \in Submitted |-> Len(future[i].findings)], Submitted \ Failed)
        /\ results.statistics.files_with_findings
              = Cardinality({i \in Submitted \ Failed : future[i].findings # <<>>})

-----------------------------------------------------------------------------
(* C7 *)

\* the enumerated files that could not be analysed: open() failed, or analyze_file
\* raised
NotAnalysed == {i \in Submitted : ~FileOf(i).readable \/ future[i].exc # "none"}

\* C7: after a completed run the statistics tell how many files were skipped or
\* failed: total_files minus analyzed_files is the number of enumerated files that
\* could not be analysed (unreadable, or the analysis raised).
C7_SkippedFilesAreCounted ==
    pc = "done" =>
        results.statistics.total_files - results.statistics.analyzed_files
            = Cardinality(NotAnalysed)

-----------------------------------------------------------------------------
(* C8 *)

\* the file's directory relative to the corpus root given to the run
DirUnderRoot(i) == RelativeTo(Parent(FileOf(i).path), kernel_path)

\* C8: a rule is applied to a file if and only if it is enabled and one string of
\* its directories is a substring of the file's directory relative to the corpus
\* root given to the run, for every root passed to analyze_kernel; and computing
\* the relative directory never fails for a file enumerated under that root.
C8_RuleAppliedIffEnabledAndInDirectory ==
    \A i \in Submitted :
        (task[i] \in {"finished", "consumed"} /\ FileOf(i).readable) =>
            /\ future[i].exc # "ValueError"
            /\ \A k \in 1..Len(DetectionRules(config)) :
                  LET rule == DetectionRules(config)[k]
                  IN (\E a \in 1..Len(future[i].applied) : future[i].applied[a] = rule.name)
                     <=> /\ Enabled(rule.config)
                         /\ DirUnderRoot(i).ok
                         /\ InTargetDirectories(rule.config, Str(DirUnderRoot(i).path))

-----------------------------------------------------------------------------
(* C9 *)

\* where a pattern matches, stated on positions rather than by a scan
MatchLen(pattern) == IF pattern.kind = "lit" THEN Len(pattern.text) ELSE 0

Occurrences(pattern, content) ==
    {pos \in 0..Len(content) :
        IF pattern.kind = "lit" THEN MatchesAt(content, pos, pattern.text)
        ELSE pos = 0 \/ content[pos] = NL}

\* the non-overlapping matches: an occurrence is one of them unless it starts
\* inside an earlier one of them
NonOverlapping(pattern, content) ==
    LET occ == Occurrences(pattern, content)
    IN CHOOSE S \in SUBSET occ :
          \A pos \in occ :
              pos \in S <=> ~(\E s \in S : s < pos /\ pos < s + MatchLen(pattern))

\* the 1-based line a position lies on
LineOfPosition(content, pos) ==
    1 + Cardinality({q \in 1..pos : content[q] = NL})

Multiplicity(patterns, pattern) ==
    Cardinality({k \in 1..Len(patterns) : patterns[k] = pattern})

RuleNamed(name) ==
    (CHOOSE k \in 1..Len(DetectionRules(config)) : DetectionRules(config)[k].name = name)

Finished == {i \in Submitted : task[i] \in {"finished", "consumed"} /\ future[i].exc = "none"}

\* C9: for one file, analyze_file emits exactly one finding per (applicable rule,
\* pattern, non-overlapping match), without deduplication of findings that share
\* file and line; each finding carries the rule's name, the pattern, the matched
\* substring and the severity configured for the rule.  So one occurrence of one
\* pattern on line L gives exactly one finding with that rule, severity and line.
C9_OneFindingPerMatch ==
    \A i \in Finished :
        LET content == FileOf(i).content
            found   == future[i].findings
            applied == {future[i].applied[a] : a \in 1..Len(future[i].applied)}
        IN /\ \A j \in 1..Len(found) :
                 /\ found[j].file = Str(FileOf(i).path)
                 /\ found[j].rule \in applied
                 /\ LET rule_config == DetectionRules(config)[RuleNamed(found[j].rule)].config
                    IN /\ found[j].severity = DictGet(rule_config, "severity", "medium")
                       /\ Multiplicity(rule_config.patterns, found[j].pattern) > 0
                 /\ \E pos \in NonOverlapping(found[j].pattern, content) :
                       /\ found[j].line = LineOfPosition(content, pos)
                       /\ found[j].match
                             = SubSeq(content, pos + 1, pos + MatchLen(found[j].pattern))
           /\ \A name \in applied :
                 LET patterns == DetectionRules(config)[RuleNamed(name)].config.patterns
                 IN \A k \in 1..Len(patterns) :
                       Compiles(patterns[k]) =>
                          \A line \in 1..(Len(content) + 1) :
                             Cardinality({j \in 1..Len(found) :
                                            /\ found[j].rule = name
                                            /\ found[j].pattern = patterns[k]
                                            /\ found[j].line = line})
                               = Multiplicity(patterns, patterns[k])
                                 * Cardinality({pos \in NonOverlapping(patterns[k], content) :
                                                  LineOfPosition(content, pos) = line})

\* a file's result holds two equal findings (same rule, pattern, line and matched
\* text) and findings of two rules on one line
C9_Witness ==
    \E i \in Finished :
        LET found == future[i].findings
        IN /\ \E j, k \in 1..Len(found) : j # k /\ found[j] = found[k]
           /\ \E j, k \in 1..Len(found) :
                 found[j].rule # found[k].rule /\ found[j].line = found[k].line

-----------------------------------------------------------------------------
(* C10 *)

\* C10: every finding's line number is 1-based and within the file:
\* 1 <= line <= number of lines of the scanned content, also for a match at the
\* very start and at the very end of the content (after a trailing newline).
C10_LineWithinFile ==
    \A i \in Finished :
        \A j \in 1..Len(future[i].findings) :
            /\ 1 <= future[i].findings[j].line
            /\ future[i].findings[j].line <= Len(SplitLines(FileOf(i).content))

\* a file that ends in a newline has a finding at its very start, on line 1, and
\* one at its very end, on its last line
C10_Witness ==
    \E i \in Finished :
        LET content == FileOf(i).content
            found   == future[i].findings
        IN /\ content # <<>>
           /\ content[Len(content)] = NL
           /\ \E j \in 1..Len(found) : found[j].line = 1 /\ found[j].match = <<>>
           /\ \E j \in 1..Len(found) :
                 /\ found[j].line = Len(SplitLines(content))
                 /\ found[j].line = CountNL(content) + 1
                 /\ found[j].match = <<>>

-----------------------------------------------------------------------------
(* C11 *)

\* C11: a rule whose enabled flag is false contributes no finding to any file's
\* result nor to the report, even when its patterns match and its directories
\* cover the file.
C11_DisabledRuleContributesNothing ==
    \A k \in 1..Len(DetectionRules(config)) :
        LET rule == DetectionRules(config)[k]
        IN DictGet(rule.config, "enabled", TRUE) = FALSE =>
              /\ \A i \in Finished : CountOfRule(future[i].findings, rule.name) = 0
              /\ CountOfRule(all_findings, rule.name) = 0
              /\ CountOfRule(results.findings, rule.name) = 0

\* a completed run analysed a file that lies in a directory of a disabled rule and
\* holds a match of one of its patterns
C11_Witness ==
    /\ pc = "done"
    /\ \E i \in Finished : \E k \in 1..Len(DetectionRules(config)) :
          LET rule == DetectionRules(config)[k]
          IN /\ DictGet(rule.config, "enabled", TRUE) = FALSE
             /\ FileOf(i).readable
             /\ IsSubstring(rule.config.directories[1],
                            Str(SubSeq(FileOf(i).path, 2, Len(FileOf(i).path) - 1)))
             /\ Occurrences(rule.config.patterns[1], FileOf(i).content) # {}
             /\ results.findings # <<>>

-----------------------------------------------------------------------------
(* C12 *)

\* the .c files below the root given to the run
Candidates ==
    {i \in 1..Len(FileSystem) :
        /\ IsPrefix(kernel_path, Parent(FileSystem[i].path))
        /\ HasCSuffix(FileSystem[i].path[Len(FileSystem[i].path)])}

Enumerated == {c_files[i] : i \in 1..Len(c_files)}

\* C12: get_c_files includes a .c file that no exclude pattern matches if and only
\* if its size is at most max_file_size (a file of exactly max_file_size bytes is
\* included, one of max_file_size + 1 bytes is not), and never a file that an
\* exclude pattern matches.
C12_SizeCapIsInclusive ==
    pc \in {"collecting", "done"} =>
        \A i \in Candidates :
            /\ Excluded(config, FileSystem[i].path) => i \notin Enumerated
            /\ ~Excluded(config, FileSystem[i].path) =>
                  (i \in Enumerated <=> FileSystem[i].size <= config.analysis.max_file_size)

\* the walk met a file of exactly the cap, which it kept, a file one byte over the
\* cap, which it left out, and a file matched by an exclude pattern
C12_Witness ==
    /\ pc = "collecting"
    /\ \E i \in Candidates :
          FileSystem[i].size = config.analysis.max_file_size /\ i \in Enumerated
    /\ \E i \in Candidates :
          /\ FileSystem[i].size = config.analysis.max_file_size + 1
          /\ ~Excluded(config, FileSystem[i].path)
          /\ i \notin Enumerated
    /\ \E i \in Candidates : Excluded(config, FileSystem[i].path)

-----------------------------------------------------------------------------
(* C19 *)

\* the configuration without the patterns that do not compile
RECURSIVE OnlyCompiling(_)
OnlyCompiling(patterns) ==
    IF patterns = <<>> THEN <<>>
    ELSE (IF Compiles(Head(patterns)) THEN <<Head(patterns)>> ELSE <<>>)
         \o OnlyCompiling(Tail(patterns))

WithoutInvalidPatterns(cfg) ==
    IF "detection_rules" \notin DOMAIN cfg THEN cfg
    ELSE
    [cfg EXCEPT !.detection_rules =
        [k \in 1..Len(cfg.detection_rules) |->
            [cfg.detection_rules[k] EXCEPT !.config.patterns = OnlyCompiling(@)]]]

\* C19: a pattern that is no valid regex is caught and only that pattern is
\* skipped: every file's findings, and the report, are those of the same
\* configuration without the invalid pattern, and the run is not aborted.
C19_InvalidPatternIsSkippedAlone ==
    /\ \A i \in Submitted :
          task[i] \in {"finished", "consumed"} =>
              LET clean == AnalyzeFile(WithoutInvalidPatterns(config), FileOf(i))
              IN /\ future[i].exc = clean.exc
                 /\ future[i].findings = clean.findings
    /\ (pc = "collecting" /\ \A i \in Submitted : task[i] = "consumed") => ENABLED Compile

\* a file's result holds findings of the pattern before and of the pattern after
\* the invalid pattern of the same rule
C19_Witness ==
    \E i \in Finished : \E k \in 1..Len(DetectionRules(config)) :
        LET patterns == DetectionRules(config)[k].config.patterns
            name     == DetectionRules(config)[k].name
        IN \E a, b, c \in 1..Len(patterns) :
              /\ a < b /\ b < c
              /\ ~Compiles(patterns[b])
              /\ \E j \in 1..Len(future[i].findings) :
                    future[i].findings[j].rule = name /\ future[i].findings[j].pattern = patterns[a]
              /\ \E j \in 1..Len(future[i].findings) :
                    future[i].findings[j].rule = name /\ future[i].findings[j].pattern = patterns[c]

-----------------------------------------------------------------------------
(* C20 *)

\* the configuration file is missing, is not valid, or holds no detection_rules
FatalConfiguration ==
    \/ config_file.state \in {"missing", "malformed"}
    \/ "detection_rules" \notin DOMAIN config_file.doc

\* C20: a missing or malformed configuration is fatal at startup: when the
\* configuration file is missing, is not valid or has no detection_rules mapping,
\* the detector exits before it enumerates or analyses any file and produces no
\* report.
C20_BadConfigurationIsFatal ==
    FatalConfiguration =>
        /\ pc = "exited"
        /\ c_files = <<>>
        /\ run = 0
        /\ results = EmptyResults

-----------------------------------------------------------------------------
(* Helpers of the analyzer's properties *)

Classified == analyzer_pc \in {"classified", "extracted", "saved"}

Extracted == analyzer_pc \in {"extracted", "saved"}

\* what identifies a finding in the classification: its file, line, matched text
\* and context
Identity(f) ==
    [file |-> f.file, line |-> f.line, match |-> f.match,
     context |-> DictGet(f, "context", <<>>)]

IdentitiesOf(list) == [k \in 1..Len(list) |-> Identity(list[k])]

\* the identities held by the categories of S, with their multiplicity
RECURSIVE EntriesBag(_, _)
EntriesBag(classified, S) ==
    IF S = {} THEN EmptyBag
    ELSE LET c == CHOOSE x \in S : TRUE
         IN BagOfSeq(IdentitiesOf(classified[c])) (+) EntriesBag(classified, S \ {c})

\* number of entries of a category that are the given finding
CountIn(classified, c, f) ==
    IF c \notin DOMAIN classified THEN 0
    ELSE Cardinality({k \in 1..Len(classified[c]) : Identity(classified[c][k]) = Identity(f)})

\* the declared categories that have a pattern found in the finding's matched text
MatchingCategories(f) ==
    {k \in 1..Len(concurrency_patterns) :
        \E j \in 1..Len(concurrency_patterns[k].patterns) :
            Search(concurrency_patterns[k].patterns[j], LowerText(f.match))}

MatchingPatterns(f, k) ==
    {j \in 1..Len(concurrency_patterns[k].patterns) :
        Search(concurrency_patterns[k].patterns[j], LowerText(f.match))}

Least(S) == CHOOSE x \in S : \A y \in S : x <= y

CategoryNames ==
    {concurrency_patterns[k].category : k \in 1..Len(concurrency_patterns)}
        \cup {"general_concurrency"}

-----------------------------------------------------------------------------
(* C13 *)

\* the findings of the results file that are of the classified rule
LoadedOfRule ==
    LET all == results_file.doc.findings
    IN {k \in 1..Len(all) : all[k].rule = "concurrency"}

RECURSIVE SumCounts(_, _)
SumCounts(categories, S) ==
    IF S = {} THEN 0
    ELSE LET c == CHOOSE x \in S : TRUE
         IN categories[c].count + SumCounts(categories, S \ {c})

\* C13: after load_results and classify_concurrency_issues every loaded finding of
\* rule "concurrency" is in exactly one category, no finding of another rule is in
\* any category, and in the saved report the per-category counts add up to
\* total_concurrency_issues.
C13_EveryLoadedFindingInOneCategory ==
    Classified =>
        LET all == results_file.doc.findings
        IN /\ EntriesBag(classified_issues, DOMAIN classified_issues)
                = BagOfSeq(IdentitiesOf(SelectSeq(all, LAMBDA f : f.rule = "concurrency")))
           /\ \A k \in 1..Len(all) :
                 all[k].rule # "concurrency" /\ (\A j \in LoadedOfRule : Identity(all[j]) # Identity(all[k]))
                    => \A c \in CategoryNames : CountIn(classified_issues, c, all[k]) = 0
           /\ analyzer_pc = "saved" =>
                 /\ report_data.summary.total_concurrency_issues = Cardinality(LoadedOfRule)
                 /\ SumCounts(report_data.categories, DOMAIN report_data.categories)
                       = report_data.summary.total_concurrency_issues

\* the report of a results file that held a finding of another rule was saved,
\* with findings in several categories
C13_Witness ==
    /\ analyzer_pc = "saved"
    /\ Cardinality(DOMAIN report_data.categories) >= 3
    /\ Cardinality(LoadedOfRule) < Len(results_file.doc.findings)
    /\ Cardinality(LoadedOfRule) >= 4

-----------------------------------------------------------------------------
(* C14 *)

\* C14: a finding is put into the earliest declared category that has a pattern
\* found in its matched text, with the earliest such pattern of that category
\* recorded, and into no other category.
C14_FirstMatchWins ==
    Classified =>
        \A i \in 1..Len(concurrency_issues) :
            LET f == concurrency_issues[i]
            IN MatchingCategories(f) # {} =>
                  LET k    == Least(MatchingCategories(f))
                      name == concurrency_patterns[k].category
                      j    == Least(MatchingPatterns(f, k))
                  IN /\ CountIn(classified_issues, name, f) = 1
                     /\ \A c \in CategoryNames \ {name} : CountIn(classified_issues, c, f) = 0
                     /\ \A e \in 1..Len(classified_issues[name]) :
                           Identity(classified_issues[name][e]) = Identity(f) =>
                              /\ classified_issues[name][e].pattern
                                    = concurrency_patterns[k].patterns[j]
                              /\ classified_issues[name][e].description
                                    = concurrency_patterns[k].description

\* a finding whose matched text has patterns of two categories was classified, and
\* one whose text has a pattern that is not the first of its category
C14_Witness ==
    /\ Classified
    /\ \E i \in 1..Len(concurrency_issues) :
          Cardinality(MatchingCategories(concurrency_issues[i])) >= 2
    /\ \E i \in 1..Len(concurrency_issues) :
          LET f == concurrency_issues[i]
          IN MatchingCategories(f) # {}
                /\ Least(MatchingPatterns(f, Least(MatchingCategories(f)))) > 1

-----------------------------------------------------------------------------
(* C15 *)

RaceCondition == concurrency_patterns[1].patterns[1]

\* C15: a finding is in general_concurrency if and only if no pattern of any
\* declared category is found in its matched text; a finding whose matched text
\* matches race.*condition is in race_condition and not in general_concurrency.
C15_FallbackIffNoMatch ==
    Classified =>
        \A i \in 1..Len(concurrency_issues) :
            LET f == concurrency_issues[i]
            IN /\ CountIn(classified_issues, "general_concurrency", f) >= 1
                     <=> MatchingCategories(f) = {}
               /\ Search(RaceCondition, LowerText(f.match)) =>
                     /\ CountIn(classified_issues, "race_condition", f) = 1
                     /\ CountIn(classified_issues, "general_concurrency", f) = 0

\* one finding went to the fallback, its text holding "race" and "condition" on
\* two lines, and one finding matching race.*condition went to race_condition
C15_Witness ==
    /\ Classified
    /\ \E i \in 1..Len(concurrency_issues) :
          LET f == concurrency_issues[i]
          IN /\ MatchingCategories(f) = {}
             /\ IsSubstring(RaceCondition.parts[1], LowerText(f.match))
             /\ IsSubstring(RaceCondition.parts[2], LowerText(f.match))
             /\ CountIn(classified_issues, "general_concurrency", f) = 1
    /\ \E i \in 1..Len(concurrency_issues) :
          /\ Search(RaceCondition, LowerText(concurrency_issues[i].match))
          /\ CountIn(classified_issues, "race_condition", concurrency_issues[i]) = 1

-----------------------------------------------------------------------------
(* C16 *)

\* the entries of all categories
AllEntries ==
    UNION {{classified_issues[c][k] : k \in 1..Len(classified_issues[c])} :
              c \in DOMAIN classified_issues}

IsPlaceholder(snippet) ==
    /\ Len(snippet) = 1
    /\ snippet[1].prefix \in {"File not found: ", "Error reading file: "}

\* the results file was written by this detector's scan of kernel_path
ScanOfKernelPath == pc = "saved" /\ results_file = JsonFile(results)

\* C16: for a finding produced by scanning a corpus root whose file is still
\* there, extract_code_snippets run with the same root finds the scanned file and
\* attaches a snippet of its lines around the finding's line, not the placeholder
\* of a missing file.
C16_SnippetResolvesScannedFile ==
    (Extracted /\ ScanOfKernelPath /\ snippet_root = kernel_path) =>
        \A e \in AllEntries :
            LET scanned == ParsePath(e.file)
            IN Exists(scanned) /\ FileAt(scanned).readable =>
                  /\ ~IsPlaceholder(e.code_snippet)
                  /\ e.code_snippet
                        = CodeSnippet(ReadLines(FileAt(scanned).content), e.line)

-----------------------------------------------------------------------------
(* C17 *)

Numbers(snippet) == [k \in 1..Len(snippet) |-> snippet[k].number]

Range(a, b) == [k \in 1..Max(0, b - a + 1) |-> a + k - 1]

\* C17: when the finding's file is readable and has n lines, the snippet is the
\* file's lines max(1, line - 5) .. min(n, line + 5) in order, each with its 1-based
\* number, and exactly one snippet line, the one numbered with the finding's line,
\* carries the match marker.
C17_SnippetMarksTheMatchedLine ==
    Extracted =>
        \A e \in AllEntries :
            LET file_path == snippet_root \o ParsePath(e.file)
            IN Exists(file_path) /\ FileAt(file_path).readable =>
                  LET lines == ReadLines(FileAt(file_path).content)
                      n     == Len(lines)
                      snip  == e.code_snippet
                  IN /\ Numbers(snip) = Range(Max(1, e.line - 5), Min(n, e.line + 5))
                     /\ \A k \in 1..Len(snip) : snip[k].text = RStrip(lines[snip[k].number])
                     /\ Cardinality({k \in 1..Len(snip) : snip[k].prefix = MatchPrefix}) = 1
                     /\ \A k \in 1..Len(snip) :
                           snip[k].prefix = MatchPrefix <=> snip[k].number = e.line

-----------------------------------------------------------------------------
(* C18 *)

WithoutSnippet(e) == [x \in DOMAIN e \ {"code_snippet"} |-> e[x]]

WithoutSnippets(classified) ==
    [c \in DOMAIN classified |->
        [k \in 1..Len(classified[c]) |-> WithoutSnippet(classified[c][k])]]

Unavailable(e) ==
    LET file_path == snippet_root \o ParsePath(e.file)
    IN ~Exists(file_path) \/ ~FileAt(file_path).readable

\* C18: a missing or unreadable source file does not fail the classification: the
\* finding gets a one-element placeholder snippet, every finding stays in its
\* category, and every other finding still gets its snippet.
C18_UnavailableFileGivesPlaceholder ==
    Extracted =>
        /\ \A e \in AllEntries :
              /\ "code_snippet" \in DOMAIN e
              /\ Unavailable(e) => IsPlaceholder(e.code_snippet)
              /\ ~Unavailable(e) => ~IsPlaceholder(e.code_snippet)
        /\ WithoutSnippets(classified_issues) = ClassifyAll(<<>>, concurrency_issues)
        /\ analyzer_pc = "extracted" => ENABLED SaveDetailedReport

\* snippets were extracted for a finding of an unreadable file, a finding of a
\* missing file, and findings of readable files classified after them
C18_Witness ==
    /\ analyzer_pc = "saved"
    /\ \E e \in AllEntries : e.code_snippet[1].prefix = "Error reading file: "
    /\ \E e \in AllEntries : e.code_snippet[1].prefix = "File not found: "
    /\ \E e \in AllEntries : ~Unavailable(e) /\ Len(e.code_snippet) > 1
    /\ Unavailable(concurrency_issues[1])

-----------------------------------------------------------------------------
(* C21 *)

\* the directory exists: some file of the file system lies in it or below it
DirectoryExists(dir) ==
    \E i \in 1..Len(FileSystem) : IsPrefix(dir, Parent(FileSystem[i].path))

\* C21: a missing corpus root is fatal: when the path given to the run does not
\* exist, the run aborts with an error and produces no analysis report, not even
\* an empty one.
C21_MissingRootIsFatal ==
    ~DirectoryExists(kernel_path) =>
        /\ pc \notin {"collecting", "done", "saved"}
        /\ results = EmptyResults

-----------------------------------------------------------------------------
(* C22 *)

\* the candidates of the walk that no exclude pattern matches and whose stat() fails
Unstatable ==
    {i \in Candidates : ~Excluded(config, FileSystem[i].path) /\ ~FileSystem[i].statable}

\* C22: a candidate file that cannot be stat-ed is skipped and the enumeration
\* continues: the run is not aborted and the walk returns every other file that is
\* not excluded and not over the size cap.
C22_UnstatableFileIsSkipped ==
    (run > 0 /\ Unstatable # {}) =>
        /\ pc # "crashed"
        /\ Enumerated =
              {i \in Candidates \ Unstatable :
                  /\ ~Excluded(config, FileSystem[i].path)
                  /\ FileSystem[i].size <= config.analysis.max_file_size}

-----------------------------------------------------------------------------
(* C23 *)

\* C23: classification depends only on the loaded findings and the category list:
\* a second classify_concurrency_issues on the same analyzer with the same loaded
\* findings gives the same categories with the same counts as the first.
C23_ClassificationIsStateless ==
    analyzer_pc = "reclassified" =>
        LET first == ClassifyAll(<<>>, concurrency_issues)
        IN /\ DOMAIN classified_issues = DOMAIN first
           /\ \A c \in DOMAIN first : Len(classified_issues[c]) = Len(first[c])

-----------------------------------------------------------------------------
(* C24 *)

\* the positions of S in ascending order
RECURSIVE Ascending(_)
Ascending(S) ==
    IF S = {} THEN <<>>
    ELSE LET lo == CHOOSE x \in S : \A y \in S : x <= y
         IN <<lo>> \o Ascending(S \ {lo})

\* position of a pattern in the rule's pattern list
PatternIndex(rule_config, pattern) ==
    CHOOSE k \in 1..Len(rule_config.patterns) : rule_config.patterns[k] = pattern

\* the findings of a list that are of the given rule and pattern, in the list's order
OfRuleAndPattern(found, name, pattern) ==
    SelectSeq(found, LAMBDA f : f.rule = name /\ f.pattern = pattern)

\* line and matched text of a pattern's matches, by ascending match position
ByPosition(pattern, content) ==
    LET at == Ascending(NonOverlapping(pattern, content))
    IN [k \in 1..Len(at) |->
           [line  |-> LineOfPosition(content, at[k]),
            match |-> SubSeq(content, at[k] + 1, at[k] + MatchLen(pattern))]]

\* the report's findings that are of the file, in the report's order
OfFile(found, file_str) == SelectSeq(found, LAMBDA f : f.file = file_str)

\* the positions of the file's findings in the report
IndicesOfFile(found, file_str) == {k \in 1..Len(found) : found[k].file = file_str}

\* C24: within one file's result the findings are ordered by rule (in the order of
\* detection_rules), then by pattern (in the order of the rule's patterns), then
\* by match position; in the final report the findings of one file are one
\* contiguous block in that same order, whatever the order the workers complete in.
C24_FindingsKeepScanOrder ==
    /\ \A i \in Finished :
          LET found   == future[i].findings
              content == FileOf(i).content
              rules   == DetectionRules(config)
          IN /\ \A a, b \in 1..Len(found) :
                    a < b =>
                       LET ra == RuleNamed(found[a].rule)
                           rb == RuleNamed(found[b].rule)
                       IN \/ ra < rb
                          \/ /\ ra = rb
                             /\ PatternIndex(rules[ra].config, found[a].pattern)
                                   <= PatternIndex(rules[rb].config, found[b].pattern)
             /\ \A a \in 1..Len(found) :
                    LET group == OfRuleAndPattern(found, found[a].rule, found[a].pattern)
                    IN [k \in 1..Len(group) |-> [line |-> group[k].line, match |-> group[k].match]]
                          = ByPosition(found[a].pattern, content)
    /\ pc = "done" =>
          \A i \in Returned :
              LET file_str == Str(FileOf(i).path)
                  at       == IndicesOfFile(results.findings, file_str)
              IN /\ OfFile(results.findings, file_str) = future[i].findings
                 /\ \A a, b \in at : \A k \in a..b : k \in at

\* a completed run folded the second submitted file before the first; the first
\* file's result holds findings of two rules, of two patterns of one rule and two
\* matches of one pattern
C24_Witness ==
    /\ pc = "done"
    /\ Len(c_files) >= 2
    /\ future[2].findings # <<>>
    /\ results.findings[1].file = Str(FileOf(2).path)
    /\ LET found == future[1].findings
       IN /\ \E a, b \in 1..Len(found) : found[a].rule # found[b].rule
          /\ \E a, b \in 1..Len(found) :
                found[a].rule = found[b].rule /\ found[a].pattern # found[b].pattern
          /\ \E a, b \in 1..Len(found) :
                /\ a < b
                /\ found[a].rule = found[b].rule
                /\ found[a].pattern = found[b].pattern
                /\ found[a].line < found[b].line

-----------------------------------------------------------------------------
(* C25 *)

\* a step of a pool thread: it takes a queued task or completes its future
WorkerStep(i) ==
    /\ pc = "collecting" /\ pc' = "collecting"
    /\ i \in DOMAIN task /\ i \in DOMAIN task'
    /\ \/ task[i] = "queued" /\ task'[i] = "running"
       \/ task[i] = "running" /\ task'[i] = "finished"

\* the findings of the consumed files whose analysis returned, with multiplicity
RECURSIVE ConsumedBag(_)
ConsumedBag(i) ==
    IF i = 0 THEN EmptyBag
    ELSE (IF i \in Consumed \cap Returned THEN BagOfSeq(future[i].findings) ELSE EmptyBag)
         (+) ConsumedBag(i - 1)

\* C25: during a run the findings collection and the statistics are written only
\* by the thread that consumes the completed results: a step of a worker leaves
\* them, the report, the error log and the other workers' futures unchanged, and
\* in every interleaving the collection holds exactly the findings of the consumed
\* results, none dropped and none counted twice.
C25_OnlyTheCoordinatorWritesSharedState ==
    /\ [][\A i \in DOMAIN task :
             WorkerStep(i) =>
                /\ UNCHANGED <<all_findings, statistics, results, errorLog, c_files,
                               results_file, config>>
                /\ \A j \in DOMAIN task \ {i} : future'[j] = future[j] /\ task'[j] = task[j]]_vars
    /\ [](pc = "collecting" =>
             /\ BagOfSeq(all_findings) = ConsumedBag(Len(c_files))
             /\ statistics.total_findings = Len(all_findings)
             /\ statistics.analyzed_files = Cardinality(Consumed \cap Returned))

\* two workers are analysing at the same time while the result of a third file,
\* which had findings, is already folded
C25_Witness ==
    /\ pc = "collecting"
    /\ Cardinality({i \in Submitted : task[i] = "running"}) = 2
    /\ \E i \in Consumed : future[i].findings # <<>>
    /\ all_findings # <<>>

-----------------------------------------------------------------------------
(* C26 *)

CountOfSeverity(findings, severity) ==
    Cardinality({k \in 1..Len(findings) : findings[k].severity = severity})

\* C26: at whatever point a run is aborted, what has been folded so far is
\* consistent: every finding of the accumulated collection is counted in
\* total_findings, in the counter of its severity and in the counter of its rule,
\* and no counter counts a finding that is not in the collection.
C26_FoldedStateIsConsistent ==
    pc = "collecting" =>
        /\ statistics.total_findings = Len(all_findings)
        /\ \A k \in 1..Len(all_findings) :
              /\ all_findings[k].severity \in DOMAIN statistics.findings_by_severity
              /\ all_findings[k].rule \in DOMAIN statistics.findings_by_rule
        /\ \A severity \in DOMAIN statistics.findings_by_severity :
              statistics.findings_by_severity[severity]
                 = CountOfSeverity(all_findings, severity)
        /\ \A rule \in DOMAIN statistics.findings_by_rule :
              statistics.findings_by_rule[rule] = CountOfRule(all_findings, rule)

-----------------------------------------------------------------------------
(* C27 *)

\* C27: for a finding on line L of a file with n lines the context is exactly the
\* file's lines max(1, L - 3) .. min(n, L + 3) in order: it contains line L, has
\* at most 7 lines and never reaches outside the file.
C27_ContextIsClippedWindow ==
    \A i \in Finished :
        LET lines == SplitLines(FileOf(i).content)
            n     == Len(lines)
            found == future[i].findings
        IN \A j \in 1..Len(found) :
              LET L     == found[j].line
                  first == IF L - 3 >= 1 THEN L - 3 ELSE 1
                  last  == IF L + 3 <= n THEN L + 3 ELSE n
              IN /\ 1 <= L /\ L <= n
                 /\ found[j].context = [k \in 1..(last - first + 1) |-> lines[first + k - 1]]
                 /\ found[j].context[L - first + 1] = lines[L]
                 /\ Len(found[j].context) <= 7

\* a finding whose window of seven lines lies strictly inside its file, and a
\* finding whose window is cut at both ends of its file
C27_Witness ==
    /\ \E i \in Finished : \E j \in 1..Len(future[i].findings) :
          LET L == future[i].findings[j].line
              n == Len(SplitLines(FileOf(i).content))
          IN L - 3 > 1 /\ L + 3 < n /\ Len(future[i].findings[j].context) = 7
    /\ \E i \in Finished : \E j \in 1..Len(future[i].findings) :
          LET L == future[i].findings[j].line
              n == Len(SplitLines(FileOf(i).content))
          IN L - 3 < 1 /\ L + 3 > n /\ Len(future[i].findings[j].context) = n

-----------------------------------------------------------------------------
(* C28 *)

\* the order of the file counters of one statistics dict
Ordered(st) ==
    /\ st.files_with_findings <= st.analyzed_files
    /\ st.analyzed_files <= st.total_files
    /\ st.files_with_findings <= st.total_findings

\* no counter of new is below the counter of old, and no counter is gone
NotDecreased(old, new) ==
    /\ new.total_files >= old.total_files
    /\ new.analyzed_files >= old.analyzed_files
    /\ new.files_with_findings >= old.files_with_findings
    /\ new.total_findings >= old.total_findings
    /\ DOMAIN old.findings_by_severity \subseteq DOMAIN new.findings_by_severity
    /\ \A s \in DOMAIN old.findings_by_severity :
          new.findings_by_severity[s] >= old.findings_by_severity[s]
    /\ DOMAIN old.findings_by_rule \subseteq DOMAIN new.findings_by_rule
    /\ \A r \in DOMAIN old.findings_by_rule :
          new.findings_by_rule[r] >= old.findings_by_rule[r]

-----------------------------------------------------------------------------
(* C29 *)

\* the consumed futures whose result() raised
ConsumedFailed == {i \in Consumed : future[i].exc # "none"}

\* no analyze_file call is under way
NoneRunning == \A i \in DOMAIN task : task[i] # "running"

\* every per-file analysis that was started ends, by returning or by raising:
\* with finitely many files, the pool is again and again without a running call
EveryAnalysisTerminates == []<>NoneRunning

\* C29: if every per-file analysis terminates, a started result collection ends
\* with the compiled report; at that point every enumerated file's future has
\* been consumed, the successful and the failed ones together are total_files,
\* and no future is consumed a second time.
C29_EveryResultIsConsumedAndTheRunEnds ==
    /\ EveryAnalysisTerminates => ((pc = "collecting") ~> (pc = "done"))
    /\ [](pc \in {"done", "saved"} =>
            /\ Consumed = Submitted
            /\ Cardinality(Consumed \cap Returned) + Cardinality(ConsumedFailed)
                  = statistics.total_files
            /\ statistics.total_files = Len(c_files))
    /\ [][\A i \in DOMAIN task :
             task[i] = "consumed" /\ run' = run => task'[i] = "consumed"]_vars

\* a finished run over several files, one consumed with a result and one whose
\* result() raised
C29_Witness ==
    /\ pc = "done"
    /\ Len(c_files) >= 2
    /\ Consumed \cap Returned # {}
    /\ ConsumedFailed # {}

-----------------------------------------------------------------------------
(* C30 *)

\* the results file cannot be loaded: it is missing, it is no valid JSON, or one
\* of its findings has no rule field
LoadFails ==
    \/ results_file.state \in {"absent", "malformed"}
    \/ /\ results_file.state = "json"
       /\ \E k \in 1..Len(results_file.doc.findings) :
             "rule" \notin DOMAIN results_file.doc.findings[k]

\* C30: load_results fails exactly when the results file is missing, is no valid
\* JSON or has a finding without rule; the failing call and everything after it
\* leave the loaded findings, the classified issues, the snippets and the report
\* as they were: run_analysis returns without classifying, extracting or saving.
C30_FailedLoadChangesNothing ==
    /\ [][analyzer_pc = "new" /\ analyzer_pc' # "new"
            => (LoadFails <=> analyzer_pc' = "returned")]_vars
    /\ [][analyzer_pc' = "returned"
            => UNCHANGED <<concurrency_issues, classified_issues, snippet_root,
                           report_data>>]_vars
    /\ [](analyzer_pc = "returned" =>
            ~ENABLED (\/ Classify
                      \/ \E root \in SnippetRoots : ExtractSnippets(root)
                      \/ SaveDetailedReport))

\* load_results has failed on a JSON file whose first finding is a concurrency
\* finding and whose second finding has no rule
C30_Witness ==
    /\ analyzer_pc = "returned"
    /\ results_file.state = "json"
    /\ results_file.doc.findings[1].rule = "concurrency"
    /\ "rule" \notin DOMAIN results_file.doc.findings[2]
    /\ concurrency_issues = <<>>

====
